---------------------------- MODULE Spec2Model ----------------------------
(***************************************************************************)
(* A state-machine model of the O(1) ghOSt scheduler of                    *)
(* schedulers/o1/o1_scheduler.cc: the per-task lifecycle handlers, the     *)
(* per-CPU dual-band runqueue (O1Rq), round-robin placement, migration and *)
(* the commit loop (O1Schedule).                                           *)
(*                                                                         *)
(* One agent thread runs per CPU.  The handlers of one agent and its       *)
(* O1Schedule run on one thread and are modelled as one action each.      *)
(* Migrate is the one operation in which an agent (the owner of the        *)
(* default channel) touches another CPU's state, so it is modelled step    *)
(* by step (associate, set cpu, enqueue, ping) and interleaves with the    *)
(* destination agent.                                                      *)
(*                                                                         *)
(* The kernel is the environment: a message for a task is delivered to the *)
(* channel the task is associated with and is only produced in a kernel    *)
(* state in which the kernel can produce it (a wakeup for a blocked task,  *)
(* an off-cpu message for a running task, a from_switchto message for a    *)
(* task running in a switchto chain).                                      *)
(***************************************************************************)
EXTENDS Integers, Sequences, FiniteSets, TLC

\* ------------------------------------------------------------- bounds
NumTasks == 2        \* task records the allocator hands out: 1..NumTasks
MaxElapsed == 2      \* absl::Now() - runtime_at_last_pick of a running task is followed up to here
MaxDebt == 2         \* remaining_time is followed down to -MaxDebt
MaxPlacements == 8   \* AssignCpu calls followed in SpecAssign
MaxPending == 2      \* messages pending in one channel are followed up to here

\* The slice constant assigned by O1Task::SetRemainingTime.
Slice == 2

Tasks == 1..NumTasks
NoTask == 0                      \* nullptr
CpuList == <<0, 1>>              \* the cpu list of a two-cpu enclave
RRWindow == 2 * NumTasks         \* 2N dequeues

VARIABLES
  task,         \* task[t]: the O1Task record of task t
  cs,           \* cs[c]: CpuState of cpu c: current, aq (active), eq (expired), preempt_curr
  heap,         \* heap[t]: "free" | "live": whether record t is allocated to a task
  fatal,        \* "none", or why the process died: "check" (CHECK failed), "segv", "doublefree"
  cpus,         \* the scheduler's cpu list (cpus())
  rr_next,      \* AssignCpu's static cursor `next` (an index into cpus; Len+1 = end)
  assoc,        \* assoc[t]: cpu whose channel task t is associated with
  in_switchto,  \* kernel side: tasks running inside a switchto chain
  mig,          \* the Migrate call in progress on the default agent
  last,         \* history: the last operation executed
  log,          \* history: the tasks returned by the last dequeues (SpecRR)
  clean,        \* history: dequeues since the last boosted/voluntary enqueue (SpecRR)
  placed,       \* history: cpus returned by AssignCpu, in call order
  finished,     \* Agent::Finished(): the enclave has asked the agents to stop
  exited,       \* cpus whose AgentThread has left its loop
  on_cpu,       \* kernel side: tasks whose status_word.on_cpu() is true on a remote cpu
  spin,         \* spin[c]: the `next` the agent of cpu c waits for in O1Schedule, and
                \* whether it has paused
  mu,           \* the runqueue mutex mu_: the thread that holds it, or "free"
  thr,          \* thr[th]: the runqueue call thread th is in, and where it is in it
  rq0,          \* history: the program state when the first of the calls began
  chan,         \* chan[c]: the messages pending in the channel of cpu c, oldest first
  kst,          \* kernel side: kst[t] is "free", "blocked", "runnable" or "oncpu"
  drained       \* history: drained[c] counts the messages the running pass of
                \* Schedule on cpu c has dispatched

Cpus == {cpus[i] : i \in 1..Len(cpus)}
DefaultCpu == cpus[1]            \* the cpu whose channel is default_channel_

\* The state of the agent threads outside the handlers.
shutdownVars == <<finished, exited>>
spinVars == <<on_cpu, spin>>
lockVars == <<mu, thr, rq0>>
chanVars == <<chan, kst, drained>>
aux == <<shutdownVars, spinVars, lockVars, chanVars>>

vars == <<task, cs, heap, fatal, cpus, rr_next, assoc, in_switchto, mig,
          last, log, clean, placed, aux>>

\* ------------------------------------------------------------- task record
\* Time is kept relative: since_last_pick is absl::Now() - runtime_at_last_pick,
\* the age of the task's runtime_at_last_pick stamp.  Setting the stamp to
\* Now() sets the age to 0; time passing makes it grow (AdvanceTime).
FreshTask ==
  [run_state |-> "Blocked", cpu |-> -1, preempted |-> FALSE, prio_boost |-> FALSE,
   remaining_time |-> 0, since_last_pick |-> 0]

SetRemainingTime(tk) == [tk EXCEPT !.remaining_time = Slice]

SetRuntimeAtLastPick(tk) == [tk EXCEPT !.since_last_pick = 0]

\* O1Task::UpdateRemainingTime: the updated record and the returned bool.
UpdateRemainingTimeStrict(tk, isOff) ==
  LET tk1 == [tk EXCEPT !.remaining_time = @ - tk.since_last_pick]
  IN  IF ~isOff
        THEN [task |-> SetRuntimeAtLastPick(tk1), ret |-> tk1.remaining_time < 0]
        ELSE [task |-> tk1, ret |-> FALSE]
UpdateRemainingTime(tk, isOff) ==
  LET tk1 == [tk EXCEPT !.remaining_time = @ - tk.since_last_pick]
  IN  IF ~isOff
        THEN [task |-> SetRuntimeAtLastPick(tk1), ret |-> tk1.remaining_time <= 0]
        ELSE [task |-> tk1, ret |-> FALSE]

\* ------------------------------------------------------------- program state
\* The handlers are sequential code: each is a function from the program
\* state s = [task, cs, heap, fatal] to the program state it leaves.  A fatal
\* error (a failed CHECK, a crash) stops the process where it stands.

State == [task |-> task, cs |-> cs, heap |-> heap, fatal |-> fatal]

Dead(s) == s.fatal # "none"

\* Sequencing: F applied to the state (or result) v that the statements before
\* it have left.
Then(v, F(_)) == CHOOSE r \in {F(x) : x \in {v}} : TRUE

Fail(s, why) == [s EXCEPT !.fatal = why]

FreshCpuState == [current |-> NoTask, aq |-> <<>>, eq |-> <<>>, preempt_curr |-> FALSE]

InSeq(q, t) == \E i \in 1..Len(q) : q[i] = t

\* deque::erase of the one element at position pos.
EraseAt(q, pos) == SubSeq(q, 1, pos - 1) \o SubSeq(q, pos + 1, Len(q))

\* The position Erase finds task t at in a band: the back first, then a scan
\* from the beginning.
ErasePos(q, t) ==
  IF q[Len(q)] = t THEN Len(q)
  ELSE CHOOSE i \in 1..Len(q) : q[i] = t /\ \A j \in 1..(i - 1) : q[j] # t

Remove(q, t) == EraseAt(q, ErasePos(q, t))

\* ------------------------------------------------------------- O1Rq
\* The band Enqueue chooses for a task.
EnqueueBandExhaustedToActive(tk) == IF tk.remaining_time >= 0 THEN "aq" ELSE "eq"
EnqueueBand(tk) == IF tk.remaining_time > 0 THEN "aq" ELSE "eq"

\* Whether Enqueue pushes at the front of the band.
EnqueueFront(tk) == tk.prio_boost

Push(q, t, front) == IF front THEN <<t>> \o q ELSE Append(q, t)

\* O1Rq::Enqueue on cpu c's runqueue.
EnqueueNoExpired(s, c, t) ==
  IF Dead(s) THEN s
  ELSE IF ~(s.task[t].cpu >= 0) \/ s.task[t].run_state # "Runnable" THEN Fail(s, "check")
  ELSE LET tk == [s.task[t] EXCEPT !.run_state = "Queued"]
       IN  [s EXCEPT !.task[t] = IF tk.remaining_time > 0 THEN tk ELSE SetRemainingTime(tk),
                     !.cs[c].aq = Push(@, t, TRUE)]
Enqueue(s, c, t) ==
  IF Dead(s) THEN s
  ELSE IF ~(s.task[t].cpu >= 0) \/ s.task[t].run_state # "Runnable" THEN Fail(s, "check")
  ELSE LET tk == [s.task[t] EXCEPT !.run_state = "Queued"]
       IN  IF EnqueueBand(tk) = "aq"
             THEN [s EXCEPT !.task[t] = tk,
                            !.cs[c].aq = Push(@, t, EnqueueFront(tk))]
             ELSE [s EXCEPT !.task[t] = SetRemainingTime(tk),
                            !.cs[c].eq = Push(@, t, EnqueueFront(tk))]

\* O1Rq::Swap
SwapCopy(rq) == [rq EXCEPT !.aq = rq.eq]
Swap(rq) == [rq EXCEPT !.aq = rq.eq, !.eq = rq.aq]

\* O1Rq::Dequeue on cpu c's runqueue: the state left and the task returned.
DequeueNoPop(s, c) ==
  IF Dead(s) THEN [s |-> s, t |-> NoTask]
  ELSE IF s.cs[c].aq = <<>> /\ s.cs[c].eq = <<>> THEN [s |-> s, t |-> NoTask]
  ELSE LET rq == IF s.cs[c].aq = <<>> THEN Swap(s.cs[c]) ELSE s.cs[c]
           t == Head(rq.aq)
       IN  [s |-> [s EXCEPT !.cs[c] = rq, !.task[t].run_state = "Runnable"], t |-> t]
Dequeue(s, c) ==
  IF Dead(s) THEN [s |-> s, t |-> NoTask]
  ELSE IF s.cs[c].aq = <<>> /\ s.cs[c].eq = <<>> THEN [s |-> s, t |-> NoTask]
  ELSE LET rq == IF s.cs[c].aq = <<>> THEN Swap(s.cs[c]) ELSE s.cs[c]
           t == Head(rq.aq)
       IN  IF s.task[t].run_state # "Queued" THEN [s |-> Fail(s, "check"), t |-> NoTask]
           ELSE [s |-> [s EXCEPT !.cs[c] = [rq EXCEPT !.aq = Tail(rq.aq)],
                                 !.task[t].run_state = "Runnable"],
                 t |-> t]

\* O1Rq::Erase on cpu c's runqueue.
Erase(s, c, t) ==
  IF Dead(s) THEN s
  ELSE IF s.task[t].run_state # "Queued" THEN Fail(s, "check")
  ELSE IF InSeq(s.cs[c].aq, t)
         THEN [s EXCEPT !.cs[c].aq = Remove(@, t), !.task[t].run_state = "Runnable"]
  ELSE IF InSeq(s.cs[c].eq, t)
         THEN [s EXCEPT !.cs[c].eq = Remove(@, t), !.task[t].run_state = "Runnable"]
  ELSE Fail(s, "check")

\* ------------------------------------------------------------- O1Scheduler
\* cpu_state_of(task)
CpuOf(s, t) == s.task[t].cpu

\* What dereferencing the null cs->current in TaskOffCpu can do: the process
\* dies on the access, or the access has no effect and the handler goes on.
NullDeref == {"segv", "skip"}

\* O1Scheduler::TaskOffCpu
TaskOffCpu(s, t, blocked, from_switchto, ub) ==
  IF Dead(s) THEN s
  ELSE
    LET c == CpuOf(s, t)
        cur == s.cs[c].current
        u == IF cur # NoTask THEN UpdateRemainingTime(s.task[cur], TRUE)
             ELSE [task |-> FreshTask, ret |-> FALSE]
        s1 == IF cur = NoTask
                THEN (IF ub = "segv" THEN Fail(s, "segv") ELSE s)
                ELSE [s EXCEPT !.task[cur] = u.task,
                               !.cs[c].preempt_curr = IF u.ret THEN TRUE ELSE @]
        s2 == IF Dead(s1) THEN s1
              ELSE IF s1.task[t].run_state = "OnCpu"
                THEN (IF s1.cs[c].current # t THEN Fail(s1, "check")
                      ELSE [s1 EXCEPT !.cs[c].current = NoTask])
              ELSE IF ~from_switchto \/ s1.task[t].run_state # "Blocked"
                THEN Fail(s1, "check")
              ELSE s1
    IN  IF Dead(s2) THEN s2
        ELSE [s2 EXCEPT !.task[t].run_state = IF blocked THEN "Blocked" ELSE "Runnable"]

\* O1Scheduler::TaskOnCpu
TaskOnCpuKeepState(s, c, t) ==
  IF Dead(s) THEN s
  ELSE [s EXCEPT !.cs[c].current = t,
                 !.task[t] = [SetRuntimeAtLastPick(s.task[t]) EXCEPT
                                !.cpu = c, !.preempted = FALSE, !.prio_boost = FALSE]]
TaskOnCpu(s, c, t) ==
  IF Dead(s) THEN s
  ELSE [s EXCEPT !.cs[c].current = t,
                 !.task[t] = [SetRuntimeAtLastPick(s.task[t]) EXCEPT
                                !.run_state = "OnCpu", !.cpu = c,
                                !.preempted = FALSE, !.prio_boost = FALSE]]

\* allocator()->FreeTask(task): the record goes back to the allocator.
FreeTask(s, t) ==
  IF Dead(s) THEN s
  ELSE IF s.heap[t] # "live" THEN Fail(s, "doublefree")
  ELSE [s EXCEPT !.heap[t] = "free", !.task[t] = FreshTask]

\* O1Scheduler::AssignCpu over the cpu list l with the static cursor at nxt
\* (an index; Len(l) + 1 is end): the cpu returned and the cursor left.
AssignCpuStuck(l, nxt) ==
  LET n == IF nxt = Len(l) + 1 THEN 1 ELSE nxt
  IN  [cpu |-> l[n], next |-> n]
AssignCpu(l, nxt) ==
  LET n == IF nxt = Len(l) + 1 THEN 1 ELSE nxt
  IN  [cpu |-> l[n], next |-> n + 1]

\* The priority boost TaskRunnable gives a wakeup.
WakeupBoostDeferrable(deferrable) == deferrable
WakeupBoost(deferrable) == ~deferrable

\* O1Schedule, the preempt_curr step: the state it leaves.
O1SchedulePreemptKeepFlag(s, c) ==
  IF ~s.cs[c].preempt_curr THEN s
  ELSE LET prev == s.cs[c].current
       IN  IF prev # NoTask
             THEN Then(TaskOffCpu(s, prev, FALSE, FALSE, "segv"),
                       LAMBDA a : Enqueue(a, c, prev))
             ELSE s
O1SchedulePreempt(s, c) ==
  IF ~s.cs[c].preempt_curr THEN s
  ELSE LET prev == s.cs[c].current
       IN  Then(IF prev # NoTask
                  THEN Then(TaskOffCpu(s, prev, FALSE, FALSE, "segv"),
                            LAMBDA a : Enqueue(a, c, prev))
                  ELSE s,
                LAMBDA a : IF Dead(a) THEN a ELSE [a EXCEPT !.cs[c].preempt_curr = FALSE])

\* O1Schedule, the choice of `next`: the state left and the task chosen.
O1SchedulePick(s, c, prio_boost) ==
  IF prio_boost \/ Dead(s) THEN [s |-> s, t |-> NoTask]
  ELSE IF s.cs[c].current # NoTask THEN [s |-> s, t |-> s.cs[c].current]
  ELSE Dequeue(s, c)

\* O1Schedule, the run request for `next`; ok is what req->Commit() returns.
O1ScheduleCommit(s, c, next, ok) ==
  IF next = NoTask \/ Dead(s) THEN s
  ELSE IF ok THEN TaskOnCpu(s, c, next)
  ELSE Then(IF next = s.cs[c].current
              THEN TaskOffCpu(s, next, FALSE, FALSE, "segv")
              ELSE s,
            LAMBDA b : IF Dead(b) THEN b
                       ELSE Enqueue([b EXCEPT !.task[next].prio_boost = TRUE], c, next))

\* O1Scheduler::O1Schedule on cpu c: the state left, the task chosen as `next`
\* and whether it came from Dequeue.
O1Schedule(s, c, prio_boost, ok) ==
  Then(O1SchedulePreempt(s, c),
       LAMBDA s0 :
         Then(O1SchedulePick(s0, c, prio_boost),
              LAMBDA d : [s |-> O1ScheduleCommit(d.s, c, d.t, ok),
                          next |-> d.t,
                          dequeued |-> (d.t # NoTask /\ s0.cs[c].current = NoTask)]))

\* The order of the steps of O1Scheduler::Migrate.
MigrateOrderEnqueueFirst == <<"setcpu", "enqueue", "associate", "ping">>
MigrateOrder == <<"associate", "setcpu", "enqueue", "ping">>

NoMig == [t |-> NoTask, cpu |-> -1, pc |-> 0]

\* The entry of Migrate: its two CHECKs.
MigrateEntry(s, t) ==
  IF Dead(s) THEN s
  ELSE IF s.task[t].run_state # "Runnable" \/ s.task[t].cpu # -1 THEN Fail(s, "check")
  ELSE s

\* ------------------------------------------------------------- handlers
\* O1Scheduler::TaskNew up to the call of Migrate.
TaskNewH(s, t, runnable) ==
  [s EXCEPT !.heap[t] = "live",
            !.task[t] = [SetRemainingTime(FreshTask) EXCEPT
                           !.run_state = IF runnable THEN "Runnable" ELSE "Blocked"]]

\* The cpu state TaskRunnable enqueues a placed task on: cpu_state_of(task).
WakeupCpuDefault(s, t) == DefaultCpu
WakeupCpu(s, t) == CpuOf(s, t)

\* O1Scheduler::TaskRunnable up to the call of Migrate (cpu < 0) or whole.
TaskRunnableH(s, t, deferrable) ==
  IF s.task[t].run_state # "Blocked" THEN Fail(s, "check")
  ELSE LET a == [s EXCEPT !.task[t].run_state = "Runnable",
                          !.task[t].prio_boost = WakeupBoost(deferrable)]
       IN  IF a.task[t].cpu < 0 THEN a ELSE Enqueue(a, WakeupCpu(s, t), t)

\* O1Scheduler::TaskDeparted
TaskDepartedNoErase(s, t, from_switchto, ub) ==
  Then(IF s.task[t].run_state = "OnCpu" \/ from_switchto
         THEN TaskOffCpu(s, t, FALSE, from_switchto, ub)
       ELSE IF s.task[t].run_state = "Queued" THEN s
       ELSE IF s.task[t].run_state # "Blocked" THEN Fail(s, "check")
       ELSE s,
       LAMBDA a : FreeTask(a, t))
TaskDepartedH(s, t, from_switchto, ub) ==
  Then(IF s.task[t].run_state = "OnCpu" \/ from_switchto
         THEN TaskOffCpu(s, t, FALSE, from_switchto, ub)
       ELSE IF s.task[t].run_state = "Queued" THEN Erase(s, CpuOf(s, t), t)
       ELSE IF s.task[t].run_state # "Blocked" THEN Fail(s, "check")
       ELSE s,
       LAMBDA a : FreeTask(a, t))

\* O1Scheduler::TaskDead
TaskDeadH(s, t) ==
  IF s.task[t].run_state # "Blocked" THEN Fail(s, "check") ELSE FreeTask(s, t)

\* O1Scheduler::TaskYield
TaskYieldH(s, t, from_switchto, ub) ==
  Then(TaskOffCpu(s, t, FALSE, from_switchto, ub), LAMBDA a : Enqueue(a, CpuOf(a, t), t))

\* O1Scheduler::TaskBlocked
TaskBlockedUnplace(s, t, from_switchto, ub) ==
  Then(TaskOffCpu(s, t, TRUE, from_switchto, ub),
       LAMBDA s1 : IF Dead(s1) THEN s1 ELSE [s1 EXCEPT !.task[t].cpu = -1])
TaskBlockedH(s, t, from_switchto, ub) == TaskOffCpu(s, t, TRUE, from_switchto, ub)

\* O1Scheduler::TaskPreempted
TaskPreemptedH(s, t, from_switchto, ub) ==
  Then(TaskOffCpu(s, t, FALSE, from_switchto, ub),
       LAMBDA a : IF Dead(a) THEN a
                  ELSE Enqueue([a EXCEPT !.task[t].preempted = TRUE,
                                         !.task[t].prio_boost = TRUE],
                               CpuOf(a, t), t))

\* O1Scheduler::TaskSwitchto
TaskSwitchtoH(s, t, ub) == TaskOffCpu(s, t, TRUE, FALSE, ub)

\* O1Scheduler::CpuTick and CheckPreemptTick
CpuTickH(s, c) ==
  LET cur == s.cs[c].current
      u == UpdateRemainingTime(s.task[cur], FALSE)
  IN  IF cur = NoTask THEN s
      ELSE [s EXCEPT !.task[cur] = u.task,
                     !.cs[c].preempt_curr = IF u.ret THEN TRUE ELSE @]

\* ------------------------------------------------------------- actions
Op(op, t, c, a, b) == [op |-> op, t |-> t, c |-> c, a |-> a, b |-> b]

Running == fatal = "none"

\* The agent of cpu c is between two handlers (the default agent may be
\* inside Migrate).
AgentIdle(c) ==
  /\ c \notin exited
  /\ spin[c].next = NoTask
  /\ c # DefaultCpu \/ mig.pc = 0

\* A message for task t can be handled now.
Deliverable(t) == Running /\ heap[t] = "live" /\ mig.t # t /\ AgentIdle(assoc[t])

IsCurrent(s, t) == \E c \in Cpus : s.cs[c].current = t

\* runtime_at_last_pick is read only through cs->current (CheckPreemptTick,
\* TaskOffCpu) and TaskOnCpu stamps a task when it becomes current: the stamp
\* of a task that is no cpu's current is never read again, and its age is not
\* followed.
LiveStamps(s) ==
  [t \in Tasks |-> IF IsCurrent(s, t) THEN s.task[t]
                   ELSE [s.task[t] EXCEPT !.since_last_pick = 0]]

\* The program state the step leaves is the value of e.
Leaves(e, l) ==
  \E s \in {e} :
    /\ \A t \in Tasks : s.task[t].remaining_time >= -MaxDebt
    /\ task' = LiveStamps(s)
    /\ cs' = s.cs
    /\ heap' = s.heap
    /\ fatal' = s.fatal
    /\ last' = l

\* The kernel state in which an off-cpu message for t is produced.
OffCpuEvent(t, from_switchto) ==
  /\ Deliverable(t)
  /\ IF from_switchto THEN t \in in_switchto ELSE task[t].run_state = "OnCpu"

\* A new task gets a free record (records are interchangeable: the first free
\* one); its messages arrive on the default channel.
TaskNew(t, runnable) ==
  /\ Running /\ heap[t] = "free" /\ AgentIdle(DefaultCpu)
  /\ \A u \in Tasks : u < t => heap[u] = "live"
  /\ assoc' = [assoc EXCEPT ![t] = DefaultCpu]
  /\ \E s \in {TaskNewH(State, t, runnable)}, r \in {AssignCpu(cpus, rr_next)} :
         IF runnable
           THEN /\ Leaves(MigrateEntry(s, t), Op("TaskNew", t, r.cpu, runnable, FALSE))
                /\ rr_next' = r.next
                /\ mig' = [t |-> t, cpu |-> r.cpu, pc |-> 1]
           ELSE /\ Leaves(s, Op("TaskNew", t, -1, runnable, FALSE))
                /\ UNCHANGED <<rr_next, mig>>
  /\ UNCHANGED <<aux, cpus, in_switchto, log, clean, placed>>

TaskRunnable(t, deferrable) ==
  /\ Deliverable(t) /\ task[t].run_state = "Blocked" /\ t \notin in_switchto
  /\ \E s \in {TaskRunnableH(State, t, deferrable)}, r \in {AssignCpu(cpus, rr_next)} :
         IF task[t].cpu < 0
           THEN /\ Leaves(MigrateEntry(s, t),
                          Op("TaskRunnable", t, -1, deferrable, task[t].remaining_time > 0))
                /\ rr_next' = r.next
                /\ mig' = [t |-> t, cpu |-> r.cpu, pc |-> 1]
           ELSE /\ Leaves(s, Op("TaskRunnable", t, task[t].cpu, deferrable,
                                 task[t].remaining_time > 0))
                /\ UNCHANGED <<rr_next, mig>>
  /\ UNCHANGED <<aux, cpus, assoc, in_switchto, log, clean, placed>>

MigrateStep(step) ==
  /\ Running /\ mig.pc # 0 /\ MigrateOrder[mig.pc] = step
  /\ mig' = IF mig.pc = Len(MigrateOrder) THEN NoMig ELSE [mig EXCEPT !.pc = @ + 1]
  /\ UNCHANGED <<aux, cpus, rr_next, in_switchto, log, clean, placed>>

MigrateAssociate ==
  /\ MigrateStep("associate")
  /\ assoc' = [assoc EXCEPT ![mig.t] = mig.cpu]
  /\ Leaves(State, Op("Migrate.associate", mig.t, mig.cpu, FALSE, FALSE))

MigrateSetCpu ==
  /\ MigrateStep("setcpu")
  /\ Leaves([State EXCEPT !.task[mig.t].cpu = mig.cpu],
            Op("Migrate.setcpu", mig.t, mig.cpu, FALSE, FALSE))
  /\ UNCHANGED assoc

MigrateEnqueue ==
  /\ MigrateStep("enqueue")
  /\ Leaves(Enqueue(State, mig.cpu, mig.t), Op("Migrate.enqueue", mig.t, mig.cpu, FALSE, FALSE))
  /\ UNCHANGED assoc

MigratePing ==
  /\ MigrateStep("ping")
  /\ Leaves(State, Op("Migrate.ping", mig.t, mig.cpu, FALSE, FALSE))
  /\ UNCHANGED assoc

TaskDeparted(t, ub) ==
  /\ Deliverable(t)
  /\ LET fs == t \in in_switchto
     IN  Leaves(TaskDepartedH(State, t, fs, ub),
                Op("TaskDeparted", t, task[t].cpu, fs, task[t].run_state = "Queued"))
  /\ in_switchto' = in_switchto \ {t}
  /\ UNCHANGED <<aux, cpus, rr_next, assoc, mig, log, clean, placed>>

TaskDead(t) ==
  /\ Deliverable(t) /\ task[t].run_state = "Blocked" /\ t \notin in_switchto
  /\ Leaves(TaskDeadH(State, t), Op("TaskDead", t, task[t].cpu, FALSE, FALSE))
  /\ UNCHANGED <<aux, cpus, rr_next, assoc, in_switchto, mig, log, clean, placed>>

TaskYieldCore(t, fs, ub) ==
  /\ OffCpuEvent(t, fs)
  /\ Leaves(TaskYieldH(State, t, fs, ub), Op("TaskYield", t, task[t].cpu, fs, FALSE))
  /\ in_switchto' = in_switchto \ {t}
  /\ UNCHANGED <<aux, cpus, rr_next, assoc, mig, placed>>

TaskYield(t, fs, ub) == TaskYieldCore(t, fs, ub) /\ UNCHANGED <<log, clean>>

TaskBlocked(t, fs, ub) ==
  /\ OffCpuEvent(t, fs)
  /\ Leaves(TaskBlockedH(State, t, fs, ub), Op("TaskBlocked", t, task[t].cpu, fs, FALSE))
  /\ in_switchto' = in_switchto \ {t}
  /\ UNCHANGED <<aux, cpus, rr_next, assoc, mig, log, clean, placed>>

TaskPreemptedCore(t, fs, ub) ==
  /\ OffCpuEvent(t, fs)
  /\ Leaves(TaskPreemptedH(State, t, fs, ub), Op("TaskPreempted", t, task[t].cpu, fs, FALSE))
  /\ in_switchto' = in_switchto \ {t}
  /\ UNCHANGED <<aux, cpus, rr_next, assoc, mig, placed>>

TaskPreempted(t, fs, ub) == TaskPreemptedCore(t, fs, ub) /\ UNCHANGED <<log, clean>>

\* The tasks the kernel can switch to: blocked, placed, not already running
\* in a chain.
SwitchtoTargets(t) ==
  {u \in Tasks \ {t} : /\ heap[u] = "live" /\ u \notin in_switchto /\ mig.t # u
                       /\ task[u].run_state = "Blocked" /\ task[u].cpu >= 0}

\* Task t switches to `target` (NoTask: to a task of no concern here).
TaskSwitchto(t, target) ==
  /\ OffCpuEvent(t, FALSE)
  /\ target \in SwitchtoTargets(t) \cup {NoTask}
  /\ Leaves(TaskSwitchtoH(State, t, "segv"), Op("TaskSwitchto", t, task[t].cpu, FALSE, FALSE))
  /\ in_switchto' = in_switchto \cup ({target} \ {NoTask})
  /\ UNCHANGED <<aux, cpus, rr_next, assoc, mig, log, clean, placed>>

CpuTick(c) ==
  /\ Running /\ AgentIdle(c)
  /\ Leaves(CpuTickH(State, c), Op("CpuTick", cs[c].current, c, FALSE, FALSE))
  /\ UNCHANGED <<aux, cpus, rr_next, assoc, in_switchto, mig, log, clean, placed>>

\* O1Scheduler::Schedule calls O1Schedule with prio_boost = false.
O1ScheduleCore(c, ok) ==
  /\ Running /\ AgentIdle(c)
  /\ \E r \in {O1Schedule(State, c, FALSE, ok)} :
       Leaves(r.s, [prev |-> IF cs[c].preempt_curr THEN cs[c].current ELSE NoTask]
                     @@ Op("O1Schedule", r.next, c, ok, r.dequeued))
  /\ UNCHANGED <<aux, cpus, rr_next, assoc, in_switchto, mig, placed>>

Schedule(c, ok) == O1ScheduleCore(c, ok) /\ UNCHANGED <<log, clean>>

\* Time passes: every stamp that is still read grows one unit older.
AdvanceTime ==
  /\ Running
  /\ \E t \in Tasks : IsCurrent(State, t)
  /\ \A t \in Tasks : IsCurrent(State, t) => task[t].since_last_pick < MaxElapsed
  /\ task' = [t \in Tasks |-> IF IsCurrent(State, t)
                                THEN [task[t] EXCEPT !.since_last_pick = @ + 1]
                                ELSE task[t]]
  /\ UNCHANGED <<aux, cs, heap, fatal, cpus, rr_next, assoc, in_switchto, mig, last, log,
                 clean, placed>>

\* ------------------------------------------------------------- Spec
NoSpin == [next |-> NoTask, paused |-> FALSE]

\* The two threads that reach one runqueue: the agent that owns it, and another
\* agent that enqueues into it (Migrate, or a wakeup it handles).
Threads == {"owner", "remote"}
NoBands == [aq |-> <<>>, eq |-> <<>>]
NoCall == [pc |-> "idle", op |-> "none", t |-> NoTask, bands |-> NoBands, overlap |-> FALSE]

InitAux ==
  /\ finished = FALSE
  /\ exited = {}
  /\ on_cpu = {}
  /\ spin = [c \in Cpus |-> NoSpin]
  /\ mu = "free"
  /\ thr = [th \in Threads |-> NoCall]
  /\ rq0 = <<>>
  /\ chan = [c \in Cpus |-> <<>>]
  /\ kst = [t \in Tasks |-> "free"]
  /\ drained = [c \in Cpus |-> 0]

InitProgram(l) ==
  /\ cpus = l
  /\ InitAux
  /\ rr_next = Len(l) + 1
  /\ task = [t \in Tasks |-> FreshTask]
  /\ cs = [c \in {l[i] : i \in 1..Len(l)} |-> FreshCpuState]
  /\ heap = [t \in Tasks |-> "free"]
  /\ fatal = "none"
  /\ assoc = [t \in Tasks |-> l[1]]
  /\ in_switchto = {}
  /\ mig = NoMig
  /\ last = Op("Init", NoTask, -1, FALSE, FALSE)
  /\ log = <<>>
  /\ clean = 0
  /\ placed = <<>>

Init == InitProgram(CpuList)

Init1 == InitProgram(<<0>>)

Next ==
  \/ \E t \in Tasks, runnable \in BOOLEAN : TaskNew(t, runnable)
  \/ \E t \in Tasks, deferrable \in BOOLEAN : TaskRunnable(t, deferrable)
  \/ MigrateAssociate
  \/ MigrateSetCpu
  \/ MigrateEnqueue
  \/ MigratePing
  \/ \E t \in Tasks, ub \in NullDeref : TaskDeparted(t, ub)
  \/ \E t \in Tasks : TaskDead(t)
  \/ \E t \in Tasks, fs \in BOOLEAN, ub \in NullDeref : TaskYield(t, fs, ub)
  \/ \E t \in Tasks, fs \in BOOLEAN, ub \in NullDeref : TaskBlocked(t, fs, ub)
  \/ \E t \in Tasks, fs \in BOOLEAN, ub \in NullDeref : TaskPreempted(t, fs, ub)
  \/ \E t \in Tasks, u \in Tasks \cup {NoTask} : TaskSwitchto(t, u)
  \/ \E c \in Cpus : CpuTick(c)
  \/ \E c \in Cpus, ok \in BOOLEAN : Schedule(c, ok)
  \/ AdvanceTime

Spec == Init /\ [][Next]_vars

Spec1 == Init1 /\ [][Next]_vars

\* ------------------------------------------------------------- SpecRR
\* N always-runnable tasks on one cpu: all records are tasks queued on the
\* one cpu of the enclave; they never block, depart or die.  log holds the
\* tasks returned by the last RRWindow dequeues; clean counts the dequeues
\* since a task was last enqueued other than by slice expiry (a failed
\* commit, a yield or a kernel preemption).
Perms == {q \in [1..NumTasks -> Tasks] : \A i, j \in 1..NumTasks : q[i] = q[j] => i = j}

LastOf(q, n) == IF Len(q) <= n THEN q ELSE SubSeq(q, Len(q) - n + 1, Len(q))

Min(a, b) == IF a < b THEN a ELSE b

InitRR ==
  /\ cpus = <<0>>
  /\ InitAux
  /\ rr_next = 2
  /\ task = [t \in Tasks |-> [SetRemainingTime(FreshTask) EXCEPT
                                !.run_state = "Queued", !.cpu = 0]]
  /\ \E q \in Perms : cs = [c \in {0} |-> [FreshCpuState EXCEPT !.aq = q]]
  /\ heap = [t \in Tasks |-> "live"]
  /\ fatal = "none"
  /\ assoc = [t \in Tasks |-> 0]
  /\ in_switchto = {}
  /\ mig = NoMig
  /\ last = Op("Init", NoTask, -1, FALSE, FALSE)
  /\ log = <<>>
  /\ clean = 0
  /\ placed = <<>>

ScheduleRR(c, ok) ==
  /\ O1ScheduleCore(c, ok)
  /\ \E r \in {O1Schedule(State, c, FALSE, ok)} :
         /\ log' = IF r.dequeued THEN LastOf(Append(log, r.next), RRWindow) ELSE log
         /\ clean' = IF r.next # NoTask /\ ~ok THEN 0
                     ELSE IF r.dequeued THEN Min(clean + 1, RRWindow)
                     ELSE clean

TaskYieldRR(t) == TaskYieldCore(t, FALSE, "segv") /\ clean' = 0 /\ UNCHANGED log

TaskPreemptedRR(t) == TaskPreemptedCore(t, FALSE, "segv") /\ clean' = 0 /\ UNCHANGED log

NextRR ==
  \/ \E c \in Cpus, ok \in BOOLEAN : ScheduleRR(c, ok)
  \/ \E c \in Cpus : CpuTick(c)
  \/ \E t \in Tasks : TaskYieldRR(t)
  \/ \E t \in Tasks : TaskPreemptedRR(t)
  \/ AdvanceTime

SpecRR == InitRR /\ [][NextRR]_vars

\* ------------------------------------------------------------- SpecAssign
\* AssignCpu over the cpu lists of enclaves of up to four cpus.
CpuLists ==
  {l \in UNION {[1..k -> 0..3] : k \in 1..4} : \A i, j \in 1..Len(l) : i < j => l[i] < l[j]}

InitAssign == \E l \in CpuLists : InitProgram(l)

Place ==
  /\ Len(placed) < MaxPlacements
  /\ LET r == AssignCpu(cpus, rr_next)
     IN  /\ rr_next' = r.next
         /\ placed' = Append(placed, r.cpu)
  /\ UNCHANGED <<aux, task, cs, heap, fatal, cpus, assoc, in_switchto, mig, last, log, clean>>

NextAssign == Place

SpecAssign == InitAssign /\ [][NextAssign]_vars

\* ------------------------------------------------------------- SpecAgent
\* O1Agent::AgentThread on a one-cpu enclave: the loop runs Schedule while
\* !Finished() || !scheduler_->Empty(cpu()) and the thread leaves it otherwise.

\* O1Scheduler::Empty(cpu): nothing is queued on the cpu and nothing is
\* current of it.
Empty(c) == cs[c].current = NoTask /\ cs[c].aq = <<>> /\ cs[c].eq = <<>>

\* The condition of the loop of AgentThread.
LoopConditionAnd(c) == ~finished /\ ~Empty(c)
LoopCondition(c) == ~finished \/ ~Empty(c)

\* The enclave asks the agents to stop.
Finish ==
  /\ Running /\ ~finished
  /\ finished' = TRUE
  /\ UNCHANGED <<task, cs, heap, fatal, cpus, rr_next, assoc, in_switchto, mig,
                 last, log, clean, placed, exited, spinVars, lockVars, chanVars>>

\* The agent of cpu c evaluates the loop condition to false and leaves.
AgentExit(c) ==
  /\ Running /\ AgentIdle(c) /\ ~LoopCondition(c)
  /\ exited' = exited \cup {c}
  /\ last' = Op("AgentExit", NoTask, c, FALSE, FALSE)
  /\ UNCHANGED <<task, cs, heap, fatal, cpus, rr_next, assoc, in_switchto, mig,
                 log, clean, placed, finished, spinVars, lockVars, chanVars>>

NextAgent ==
  \/ Next
  \/ Finish
  \/ \E c \in Cpus : AgentExit(c)

SpecAgent == Init1 /\ [][NextAgent]_vars

\* ------------------------------------------------------------- SpecRq
\* The operations of O1Rq on one runqueue, from every content the bands can
\* have: the tasks in the bands are Queued with slice left, the others are
\* Runnable (dequeued, or about to be enqueued) with any remaining_time and
\* prio_boost.
Arrangements ==
  {q \in UNION {[1..k -> Tasks] : k \in 0..NumTasks} :
     \A i, j \in 1..Len(q) : q[i] = q[j] => i = j}

InitRq ==
  /\ cpus = <<0>>
  /\ InitAux
  /\ rr_next = 2
  /\ \E q \in Arrangements, k \in 0..NumTasks :
       /\ k <= Len(q)
       /\ cs = [c \in {0} |-> [FreshCpuState EXCEPT !.aq = SubSeq(q, 1, k),
                                                      !.eq = SubSeq(q, k + 1, Len(q))]]
       /\ \E rt \in [Tasks -> 0..Slice], boost \in [Tasks -> BOOLEAN] :
            task = [t \in Tasks |->
                      IF InSeq(q, t)
                        THEN [FreshTask EXCEPT !.run_state = "Queued", !.cpu = 0,
                                               !.remaining_time = Slice]
                        ELSE [FreshTask EXCEPT !.run_state = "Runnable", !.cpu = 0,
                                               !.remaining_time = rt[t],
                                               !.prio_boost = boost[t]]]
  /\ heap = [t \in Tasks |-> "live"]
  /\ fatal = "none"
  /\ assoc = [t \in Tasks |-> 0]
  /\ in_switchto = {}
  /\ mig = NoMig
  /\ last = Op("Init", NoTask, -1, FALSE, FALSE)
  /\ log = <<>>
  /\ clean = 0
  /\ placed = <<>>

RqFrame == UNCHANGED <<aux, cpus, rr_next, assoc, in_switchto, mig, log, clean, placed>>

\* run_queue.Dequeue(); last.a records whether the active band was empty.
RqDequeue(c) ==
  /\ Running
  /\ \E r \in {Dequeue(State, c)} :
       Leaves(r.s, Op("Dequeue", r.t, c, cs[c].aq = <<>>, FALSE))
  /\ RqFrame

\* run_queue.Enqueue(t) of a Runnable task.
RqEnqueue(c, t) ==
  /\ Running /\ task[t].run_state = "Runnable"
  /\ Leaves(Enqueue(State, c, t), Op("Enqueue", t, c, task[t].prio_boost, task[t].remaining_time > 0))
  /\ RqFrame

\* run_queue.Erase(t) of a Queued task.
RqErase(c, t) ==
  /\ Running /\ task[t].run_state = "Queued"
  /\ Leaves(Erase(State, c, t), Op("Erase", t, c, FALSE, FALSE))
  /\ RqFrame

NextRq ==
  \/ \E c \in Cpus : RqDequeue(c)
  \/ \E c \in Cpus, t \in Tasks : RqEnqueue(c, t)
  \/ \E c \in Cpus, t \in Tasks : RqErase(c, t)

SpecRq == InitRq /\ [][NextRq]_vars

\* ------------------------------------------------------------- SpecSpin
\* O1Schedule with the wait for `next` to get off a remote cpu: a switchto
\* target runs on a remote cpu behind the agent's back, and its status word
\* can still say on_cpu when the agent has already handled its off-cpu message
\* and its wakeup.  The call is followed statement by statement: the choice of
\* `next`, the pauses, the commit.

\* The kernel runs a switchto target on a remote cpu.
KernelOnCpu(t) ==
  /\ Running /\ t \in in_switchto /\ t \notin on_cpu
  /\ on_cpu' = on_cpu \cup {t}
  /\ UNCHANGED <<task, cs, heap, fatal, cpus, rr_next, assoc, in_switchto, mig,
                 last, log, clean, placed, shutdownVars, spin, lockVars, chanVars>>

\* The remote cpu lets go of a task whose off-cpu message has been produced.
KernelOffCpu(t) ==
  /\ t \in on_cpu /\ t \notin in_switchto
  /\ on_cpu' = on_cpu \ {t}
  /\ UNCHANGED <<task, cs, heap, fatal, cpus, rr_next, assoc, in_switchto, mig,
                 last, log, clean, placed, shutdownVars, spin, lockVars, chanVars>>

\* A record is handed out again only when the kernel is done with the task
\* that had it.
TaskNewSpin(t, runnable) == t \notin on_cpu /\ TaskNew(t, runnable)

\* The condition that ends the loop `while (next->status_word.on_cpu())`.
SpinDoneAlways(t) == TRUE
SpinDone(t) == t \notin on_cpu

\* O1Schedule up to the choice of `next`; with no `next` the call ends in
\* LocalYield.
O1ScheduleSelect(c) ==
  /\ Running /\ AgentIdle(c)
  /\ \E d \in {Then(O1SchedulePreempt(State, c), LAMBDA s0 : O1SchedulePick(s0, c, FALSE))} :
       /\ Leaves(d.s, Op("O1Schedule.select", d.t, c, FALSE, FALSE))
       /\ spin' = [spin EXCEPT ![c] = [next |-> d.t, paused |-> FALSE]]
  /\ UNCHANGED <<cpus, rr_next, assoc, in_switchto, mig, log, clean, placed, shutdownVars,
                 on_cpu, lockVars, chanVars>>

\* One turn of the loop: Pause().
O1SchedulePause(c) ==
  /\ Running /\ spin[c].next # NoTask /\ ~SpinDone(spin[c].next)
  /\ spin' = [spin EXCEPT ![c].paused = TRUE]
  /\ UNCHANGED <<task, cs, heap, fatal, cpus, rr_next, assoc, in_switchto, mig,
                 last, log, clean, placed, shutdownVars, on_cpu, lockVars, chanVars>>

\* The loop is left; the run request is opened and committed; last.b records
\* whether the agent had paused.
O1ScheduleCommitStep(c, ok) ==
  /\ Running /\ spin[c].next # NoTask /\ SpinDone(spin[c].next)
  /\ Leaves(O1ScheduleCommit(State, c, spin[c].next, ok),
            Op("O1Schedule.commit", spin[c].next, c, ok, spin[c].paused))
  /\ spin' = [spin EXCEPT ![c] = NoSpin]
  /\ UNCHANGED <<cpus, rr_next, assoc, in_switchto, mig, log, clean, placed, shutdownVars,
                 on_cpu, lockVars, chanVars>>

NextSpin ==
  \/ \E t \in Tasks, runnable \in BOOLEAN : TaskNewSpin(t, runnable)
  \/ \E t \in Tasks, deferrable \in BOOLEAN : TaskRunnable(t, deferrable)
  \/ MigrateAssociate
  \/ MigrateSetCpu
  \/ MigrateEnqueue
  \/ MigratePing
  \/ \E t \in Tasks, ub \in NullDeref : TaskDeparted(t, ub)
  \/ \E t \in Tasks : TaskDead(t)
  \/ \E t \in Tasks, fs \in BOOLEAN, ub \in NullDeref : TaskYield(t, fs, ub)
  \/ \E t \in Tasks, fs \in BOOLEAN, ub \in NullDeref : TaskBlocked(t, fs, ub)
  \/ \E t \in Tasks, fs \in BOOLEAN, ub \in NullDeref : TaskPreempted(t, fs, ub)
  \/ \E t \in Tasks, u \in Tasks \cup {NoTask} : TaskSwitchto(t, u)
  \/ \E c \in Cpus : CpuTick(c)
  \/ \E c \in Cpus : O1ScheduleSelect(c)
  \/ \E c \in Cpus : O1SchedulePause(c)
  \/ \E c \in Cpus, ok \in BOOLEAN : O1ScheduleCommitStep(c, ok)
  \/ \E t \in Tasks : KernelOnCpu(t)
  \/ \E t \in Tasks : KernelOffCpu(t)
  \/ AdvanceTime

\* The remote cpu lets go of the task in the end, and the agent thread keeps
\* running.
SpecSpin ==
  /\ Init1 /\ [][NextSpin]_vars
  /\ \A t \in Tasks : WF_vars(KernelOffCpu(t))
  /\ \A c \in {0} : WF_vars(\E ok \in BOOLEAN : O1ScheduleCommitStep(c, ok))

\* ------------------------------------------------------------- SpecMutex
\* Two threads in calls on the runqueue of one cpu, statement by statement.  A
\* deque is not safe for concurrent use: a band mutation is a read of the bands
\* followed by a write of the bands computed from what was read.

RqCpu == DefaultCpu

Other(th) == CHOOSE o \in Threads : o # th

InCall(th) == thr[th].pc \notin {"idle", "done"}
InCritical(th) == thr[th].pc \in {"read", "write", "unlock"}

\* The calls a thread makes: another agent only enqueues.
ThreadOps(th) == IF th = "owner" THEN {"Enqueue", "Dequeue", "Erase"} ELSE {"Enqueue"}

MxFrame ==
  UNCHANGED <<shutdownVars, spinVars, chanVars, cpus, rr_next, assoc, in_switchto, mig, log, clean,
              placed>>

\* Thread th enters the call op on task t (Dequeue has no argument).  The
\* messages of one task are handled by one agent at a time, so the two threads
\* are not in calls on the same task.
MxBegin(th, op, t) ==
  /\ Running /\ thr[th].pc = "idle" /\ op \in ThreadOps(th)
  /\ CASE op = "Enqueue" -> t \in Tasks /\ task[t].run_state = "Runnable"
       [] op = "Erase" -> t \in Tasks /\ task[t].run_state = "Queued"
       [] op = "Dequeue" -> t = NoTask
  /\ t = NoTask \/ ~(InCall(Other(th)) /\ thr[Other(th)].t = t)
  /\ thr' = [thr EXCEPT ![th] = [NoCall EXCEPT !.pc = "start", !.op = op, !.t = t]]
  /\ rq0' = IF \A o \in Threads : thr[o].pc = "idle" THEN State ELSE rq0
  /\ UNCHANGED <<task, cs, heap, fatal, last, mu>>
  /\ MxFrame

\* The statements before the lock is taken: Enqueue's two CHECKs and
\* run_state = kQueued, Erase's CHECK_EQ.
MxPrologue(th) ==
  /\ Running /\ thr[th].pc = "start"
  /\ \E t \in {thr[th].t} :
       Leaves(CASE thr[th].op = "Enqueue" ->
                     IF ~(task[t].cpu >= 0) \/ task[t].run_state # "Runnable"
                       THEN Fail(State, "check")
                       ELSE [State EXCEPT !.task[t].run_state = "Queued"]
                [] thr[th].op = "Erase" ->
                     IF task[t].run_state # "Queued" THEN Fail(State, "check") ELSE State
                [] thr[th].op = "Dequeue" -> State,
              last)
  /\ thr' = [thr EXCEPT ![th].pc = "lock"]
  /\ UNCHANGED <<mu, rq0>>
  /\ MxFrame

\* absl::MutexLock lock(&mu_) returns when no other thread holds mu_.
MutexLockReturnsAlways(th) == TRUE
MutexLockReturns(th) == mu = "free"

MxLock(th) ==
  /\ Running /\ thr[th].pc = "lock" /\ MutexLockReturns(th)
  /\ mu' = th
  /\ thr' = [thr EXCEPT ![th].pc = "read", ![th].overlap = InCall(Other(th))]
  /\ UNCHANGED <<task, cs, heap, fatal, last, rq0>>
  /\ MxFrame

\* The bands are read.
MxRead(th) ==
  /\ Running /\ thr[th].pc = "read"
  /\ thr' = [thr EXCEPT ![th].pc = "write",
                        ![th].bands = [aq |-> cs[RqCpu].aq, eq |-> cs[RqCpu].eq]]
  /\ UNCHANGED <<task, cs, heap, fatal, last, mu, rq0>>
  /\ MxFrame

\* The body of the call of thread th on the bands b.
MxBody(th, b) ==
  LET s == [State EXCEPT !.cs[RqCpu].aq = b.aq, !.cs[RqCpu].eq = b.eq]
      t == thr[th].t
  IN  CASE thr[th].op = "Enqueue" -> Enqueue([s EXCEPT !.task[t].run_state = "Runnable"], RqCpu, t)
        [] thr[th].op = "Erase" -> Erase(s, RqCpu, t)
        [] thr[th].op = "Dequeue" -> Dequeue(s, RqCpu).s

\* The bands computed from what was read are written, with the task fields
\* the call sets.
MxWrite(th) ==
  /\ Running /\ thr[th].pc = "write"
  /\ Leaves(MxBody(th, thr[th].bands), Op(thr[th].op, thr[th].t, RqCpu, thr[th].overlap, FALSE))
  /\ thr' = [thr EXCEPT ![th].pc = "unlock"]
  /\ UNCHANGED <<mu, rq0>>
  /\ MxFrame

\* The lock's destructor at the end of the call.
MxUnlock(th) ==
  /\ Running /\ thr[th].pc = "unlock"
  /\ mu' = "free"
  /\ thr' = [thr EXCEPT ![th].pc = "done"]
  /\ UNCHANGED <<task, cs, heap, fatal, last, rq0>>
  /\ MxFrame

NextMutex ==
  \/ \E th \in Threads, op \in {"Enqueue", "Dequeue", "Erase"}, t \in Tasks \cup {NoTask} :
       MxBegin(th, op, t)
  \/ \E th \in Threads : MxPrologue(th)
  \/ \E th \in Threads : MxLock(th)
  \/ \E th \in Threads : MxRead(th)
  \/ \E th \in Threads : MxWrite(th)
  \/ \E th \in Threads : MxUnlock(th)

SpecMutex == InitRq /\ [][NextMutex]_vars

\* ------------------------------------------------------------- SpecChan
\* O1Scheduler::Schedule with the channel of its cpu: the kernel produces
\* messages into the channel while the agent runs, and one pass of Schedule is
\* followed statement by statement: one step for each message the loop
\* dispatches, then the call of O1Schedule.

Msg(type, t, flag) == [type |-> type, t |-> t, flag |-> flag]

\* Peek returns the oldest pending message, Consume removes it.
Peek(q) == Head(q)
Consume(q) == Tail(q)

KFrame ==
  UNCHANGED <<task, cs, heap, fatal, cpus, rr_next, assoc, mig, last, log, clean, placed,
              shutdownVars, spinVars, lockVars, drained>>

\* The kernel produces message m into the channel of cpu c.
Produce(c, m) ==
  /\ Running /\ Len(chan[c]) < MaxPending
  /\ chan' = [chan EXCEPT ![c] = Append(@, m)]

\* A message about task t is pending in some channel.
Pending(t) == \E c \in Cpus : \E i \in 1..Len(chan[c]) : chan[c][i].t = t

\* A task enters the enclave; its record is the lowest one not in use: the
\* agent has freed it and no message of the task that had it is pending.
KTaskNew(t, runnable) ==
  /\ kst[t] = "free" /\ heap[t] = "free" /\ ~Pending(t)
  /\ \A u \in Tasks : u < t => (kst[u] # "free" \/ heap[u] # "free" \/ Pending(u))
  /\ Produce(DefaultCpu, Msg("TaskNew", t, runnable))
  /\ kst' = [kst EXCEPT ![t] = IF runnable THEN "runnable" ELSE "blocked"]
  /\ UNCHANGED in_switchto
  /\ KFrame

\* A blocked task wakes up.
KTaskRunnable(t, deferrable) ==
  /\ kst[t] = "blocked" /\ t \notin in_switchto
  /\ Produce(assoc[t], Msg("TaskRunnable", t, deferrable))
  /\ kst' = [kst EXCEPT ![t] = "runnable"]
  /\ UNCHANGED in_switchto
  /\ KFrame

\* A task yields, blocks or is preempted: on its cpu, or at the end of a
\* switchto chain (from_switchto).
KTaskOffCpu(type, t, from_switchto) ==
  /\ IF from_switchto THEN t \in in_switchto ELSE kst[t] = "oncpu"
  /\ Produce(assoc[t], Msg(type, t, from_switchto))
  /\ kst' = [kst EXCEPT ![t] = IF type = "TaskBlocked" THEN "blocked" ELSE "runnable"]
  /\ in_switchto' = in_switchto \ {t}
  /\ KFrame

\* The tasks the kernel can switch to: blocked, placed, not already running
\* in a chain.
KSwitchtoTargets(t) ==
  {u \in Tasks \ {t} : /\ kst[u] = "blocked" /\ u \notin in_switchto
                       /\ heap[u] = "live" /\ task[u].cpu >= 0}

\* The running task switches to `target` (NoTask: to a task of no concern
\* here).
KTaskSwitchto(t, target) ==
  /\ kst[t] = "oncpu"
  /\ target \in KSwitchtoTargets(t) \cup {NoTask}
  /\ Produce(assoc[t], Msg("TaskSwitchto", t, FALSE))
  /\ kst' = [kst EXCEPT ![t] = "blocked"]
  /\ in_switchto' = in_switchto \cup ({target} \ {NoTask})
  /\ KFrame

\* A task leaves the enclave.
KTaskDeparted(t) ==
  /\ kst[t] # "free"
  /\ Produce(assoc[t], Msg("TaskDeparted", t, t \in in_switchto))
  /\ kst' = [kst EXCEPT ![t] = "free"]
  /\ in_switchto' = in_switchto \ {t}
  /\ KFrame

\* A blocked task dies.
KTaskDead(t) ==
  /\ kst[t] = "blocked" /\ t \notin in_switchto
  /\ Produce(assoc[t], Msg("TaskDead", t, FALSE))
  /\ kst' = [kst EXCEPT ![t] = "free"]
  /\ UNCHANGED in_switchto
  /\ KFrame

\* The timer of cpu c ticks.
KCpuTick(c) ==
  /\ Produce(c, Msg("CpuTick", NoTask, FALSE))
  /\ UNCHANGED <<kst, in_switchto>>
  /\ KFrame

\* DispatchMessage: the handler of message m, on the agent of cpu c.
DispatchMessage(c, m, ub) ==
  LET l == [msg |-> m] @@ Op("Dispatch", m.t, c, m.flag, FALSE)
      t == m.t
  IN  CASE m.type = "TaskNew" ->
             /\ assoc' = [assoc EXCEPT ![t] = DefaultCpu]
             /\ \E s \in {TaskNewH(State, t, m.flag)}, r \in {AssignCpu(cpus, rr_next)} :
                  IF m.flag
                    THEN /\ Leaves(MigrateEntry(s, t), l)
                         /\ rr_next' = r.next
                         /\ mig' = [t |-> t, cpu |-> r.cpu, pc |-> 1]
                    ELSE /\ Leaves(s, l)
                         /\ UNCHANGED <<rr_next, mig>>
        [] m.type = "TaskRunnable" ->
             /\ UNCHANGED assoc
             /\ \E s \in {TaskRunnableH(State, t, m.flag)}, r \in {AssignCpu(cpus, rr_next)} :
                  IF task[t].cpu < 0
                    THEN /\ Leaves(MigrateEntry(s, t), l)
                         /\ rr_next' = r.next
                         /\ mig' = [t |-> t, cpu |-> r.cpu, pc |-> 1]
                    ELSE /\ Leaves(s, l)
                         /\ UNCHANGED <<rr_next, mig>>
        [] OTHER ->
             /\ UNCHANGED <<assoc, rr_next, mig>>
             /\ Leaves(CASE m.type = "TaskDeparted" -> TaskDepartedH(State, t, m.flag, ub)
                         [] m.type = "TaskDead" -> TaskDeadH(State, t)
                         [] m.type = "TaskYield" -> TaskYieldH(State, t, m.flag, ub)
                         [] m.type = "TaskBlocked" -> TaskBlockedH(State, t, m.flag, ub)
                         [] m.type = "TaskPreempted" -> TaskPreemptedH(State, t, m.flag, ub)
                         [] m.type = "TaskSwitchto" -> TaskSwitchtoH(State, t, ub)
                         [] m.type = "CpuTick" -> CpuTickH(State, c),
                       l)

\* The loop of Schedule ends when Peek finds the channel empty.
DrainDone(c) == chan[c] = <<>>

\* One turn of the loop of Schedule: Peek, DispatchMessage, Consume.
ScheduleDispatch(c, ub) ==
  /\ Running /\ AgentIdle(c) /\ ~DrainDone(c)
  /\ DispatchMessage(c, Peek(chan[c]), ub)
  /\ chan' = [chan EXCEPT ![c] = Consume(@)]
  /\ drained' = [drained EXCEPT ![c] = IF @ < MaxPending THEN @ + 1 ELSE @]
  /\ UNCHANGED <<cpus, in_switchto, log, clean, placed, shutdownVars, spinVars, lockVars, kst>>

\* The prio_boost argument Schedule passes to O1Schedule.
SchedulePrioBoostFromStatusWord == TRUE
SchedulePrioBoost == FALSE

NoFlags == {}

\* The requests O1Schedule on cpu c makes of the kernel through its
\* RunRequest, in the order it makes them.
O1ScheduleRequests(s, c, prio_boost) ==
  Then(Then(O1SchedulePreempt(s, c), LAMBDA s0 : O1SchedulePick(s0, c, prio_boost)),
       LAMBDA d :
         IF Dead(d.s) THEN <<>>
         ELSE IF d.t # NoTask
           THEN <<[kind |-> "commit", target |-> d.t, flags |-> {"COMMIT_AT_TXN_COMMIT"}]>>
         ELSE <<[kind |-> "yield", target |-> NoTask,
                 flags |-> IF prio_boost /\ (d.s.cs[c].current # NoTask
                                             \/ d.s.cs[c].aq # <<>> \/ d.s.cs[c].eq # <<>>)
                             THEN {"RTLA_ON_IDLE"} ELSE NoFlags]>>)

\* The end of a pass: the loop is left and O1Schedule is called.  The commit
\* can succeed only for a task the kernel can run; the task committed is on
\* the cpu, and the task it replaces no longer is.
ScheduleO1Schedule(c, ok) ==
  /\ Running /\ AgentIdle(c) /\ DrainDone(c)
  /\ \E r \in {O1Schedule(State, c, SchedulePrioBoost, ok)} :
       /\ (ok /\ r.next # NoTask) => kst[r.next] \in {"runnable", "oncpu"}
       /\ Leaves(r.s, [req |-> O1ScheduleRequests(State, c, SchedulePrioBoost),
                       n |-> drained[c], pending |-> Len(chan[c])]
                        @@ Op("Schedule", r.next, c, ok, r.dequeued))
       /\ kst' = [t \in Tasks |-> IF r.s.cs[c].current = t THEN "oncpu"
                                  ELSE IF kst[t] = "oncpu" THEN "runnable"
                                  ELSE kst[t]]
  /\ drained' = [drained EXCEPT ![c] = 0]
  /\ UNCHANGED <<cpus, rr_next, assoc, in_switchto, mig, log, clean, placed, shutdownVars,
                 spinVars, lockVars, chan>>

NextChan ==
  \/ \E t \in Tasks, runnable \in BOOLEAN : KTaskNew(t, runnable)
  \/ \E t \in Tasks, deferrable \in BOOLEAN : KTaskRunnable(t, deferrable)
  \/ \E type \in {"TaskYield", "TaskBlocked", "TaskPreempted"}, t \in Tasks, fs \in BOOLEAN :
       KTaskOffCpu(type, t, fs)
  \/ \E t \in Tasks, u \in Tasks \cup {NoTask} : KTaskSwitchto(t, u)
  \/ \E t \in Tasks : KTaskDeparted(t)
  \/ \E t \in Tasks : KTaskDead(t)
  \/ \E c \in Cpus : KCpuTick(c)
  \/ \E c \in Cpus, ub \in NullDeref : ScheduleDispatch(c, ub)
  \/ MigrateAssociate
  \/ MigrateSetCpu
  \/ MigrateEnqueue
  \/ MigratePing
  \/ \E c \in Cpus, ok \in BOOLEAN : ScheduleO1Schedule(c, ok)
  \/ AdvanceTime

SpecChan == Init1 /\ [][NextChan]_vars

\* ------------------------------------------------------------- properties
Live(t) == heap[t] = "live"

\* The two bands of cpu c's runqueue, active first.
Bands(c) == cs[c].aq \o cs[c].eq

\* The places (cpu, position) of the bands that hold task t.
BandPlaces(t) ==
  {x \in UNION {{<<c, i>> : i \in 1..Len(Bands(c))} : c \in Cpus} : Bands(x[1])[x[2]] = t}

\* The cpus task t is current of.
CurrentOn(t) == {c \in Cpus : cs[c].current = t}

\* The task the next Dequeue of cpu c's runqueue returns.
NextPick(c) == Dequeue(State, c).t

\* C1: a live task is OnCpu if and only if it is the current of exactly one
\* cpu; no task is current of two cpus, and every cpu's current is a live task
\* whose run_state is OnCpu.
C1_OnCpuIffCurrent ==
  /\ \A t \in Tasks :
       Live(t) => ((task[t].run_state = "OnCpu") <=> (Cardinality(CurrentOn(t)) = 1))
  /\ \A t \in Tasks : Cardinality(CurrentOn(t)) <= 1
  /\ \A c \in Cpus :
       cs[c].current # NoTask =>
         Live(cs[c].current) /\ task[cs[c].current].run_state = "OnCpu"

\* Two tasks are on cpu at once, each the current of its own cpu.
C1_Witness ==
  \E t, u \in Tasks :
    /\ t # u /\ task[t].run_state = "OnCpu" /\ task[u].run_state = "OnCpu"
    /\ CurrentOn(t) # CurrentOn(u)

\* C2: every live task is in exactly one situation: Queued and exactly once in
\* the bands of all cpus and current nowhere; OnCpu, in no band and current of
\* exactly one cpu; or Blocked/Runnable, in no band and current nowhere.  No
\* record that is not live is in a band.
C2_OneSituation ==
  \A t \in Tasks :
    LET n == Cardinality(BandPlaces(t))
        k == Cardinality(CurrentOn(t))
    IN  IF ~Live(t) THEN n = 0
        ELSE CASE task[t].run_state = "Queued" -> n = 1 /\ k = 0
               [] task[t].run_state = "OnCpu" -> n = 0 /\ k = 1
               [] OTHER -> n = 0 /\ k = 0

\* One cpu of a two-cpu enclave holds a task in its active band and another in
\* its expired band.
C2_Witness ==
  /\ Len(cpus) = 2
  /\ \E c \in Cpus : cs[c].aq # <<>> /\ cs[c].eq # <<>>

\* C3: a task with cpu = c >= 0 is in no band of another cpu and is not the
\* current of another cpu.
C3_Placement ==
  \A t \in Tasks, c \in Cpus :
    (Live(t) /\ task[t].cpu >= 0 /\ c # task[t].cpu) =>
      (~InSeq(Bands(c), t) /\ cs[c].current # t)

\* A commit on the second cpu has just succeeded (TaskOnCpu rewrote task.cpu)
\* while the first cpu holds a task of its own.
C3_Witness ==
  /\ Len(cpus) = 2
  /\ last.op = "O1Schedule" /\ last.a /\ last.t # NoTask /\ last.c = cpus[2]
  /\ task[last.t].cpu = cpus[2] /\ cs[cpus[2]].current = last.t
  /\ \E u \in Tasks : u # last.t /\ Live(u) /\ task[u].cpu = cpus[1]
                      /\ (InSeq(Bands(cpus[1]), u) \/ cs[cpus[1]].current = u)

\* C4 (as claimed): when the commit of O1Schedule fails for `next`, on return
\* `next` is Queued on that cpu with prio_boost set, is not the cpu's current,
\* and is the task the next Dequeue of that cpu returns.
C4_CommitRecovery ==
  (Running /\ last.op = "O1Schedule" /\ last.t # NoTask /\ ~last.a) =>
    /\ task[last.t].run_state = "Queued"
    /\ task[last.t].prio_boost
    /\ InSeq(Bands(last.c), last.t)
    /\ cs[last.c].current # last.t
    /\ NextPick(last.c) = last.t

\* C5: a task that is in a band or is the current of cpu c is associated with
\* cpu c's channel and has cpu = c; a task with cpu >= 0 is associated with that
\* cpu's channel; when Migrate is about to ping, the task has been enqueued;
\* and no task is held by two cpus.
HeldBy(t) == {c \in Cpus : InSeq(Bands(c), t) \/ cs[c].current = t}

C5_MigrationOrder ==
  /\ \A t \in Tasks : \A c \in HeldBy(t) : assoc[t] = c /\ task[t].cpu = c
  /\ \A t \in Tasks : (Live(t) /\ task[t].cpu >= 0) => assoc[t] = task[t].cpu
  /\ \A t \in Tasks : Cardinality(HeldBy(t)) <= 1
  /\ (mig.pc # 0 /\ MigrateOrder[mig.pc] = "ping" /\ Live(mig.t)) =>
       /\ task[mig.t].cpu = mig.cpu
       /\ task[mig.t].run_state # "Runnable"

\* Migrate to the cpu of another agent has enqueued the task and has not yet
\* pinged, and that agent has already put the task on cpu.
C5_Witness ==
  /\ mig.pc # 0 /\ MigrateOrder[mig.pc] = "ping"
  /\ mig.cpu # DefaultCpu
  /\ cs[mig.cpu].current = mig.t

C7_BandPolarity ==
  /\ \A c \in Cpus : \A i \in 1..Len(Bands(c)) :
       /\ task[Bands(c)[i]].remaining_time > 0
       /\ task[Bands(c)[i]].remaining_time <= Slice
  /\ (Running /\ last.op = "TaskRunnable" /\ last.c >= 0) =>
       IF last.b
         THEN InSeq(cs[last.c].aq, last.t) /\ ~InSeq(cs[last.c].eq, last.t)
         ELSE /\ InSeq(cs[last.c].eq, last.t) /\ ~InSeq(cs[last.c].aq, last.t)
              /\ task[last.t].remaining_time = Slice

\* A deferrable wakeup of a task whose slice was exhausted has put it at the
\* tail of the expired band, behind another task.
C7_Witness ==
  /\ Running /\ last.op = "TaskRunnable" /\ last.c >= 0 /\ last.a /\ ~last.b
  /\ Len(cs[last.c].eq) >= 2
  /\ cs[last.c].eq[Len(cs[last.c].eq)] = last.t

\* The numbers of placements of `placed` from position a to b on cpu c.
PlacedOn(c, a, b) == Cardinality({i \in a..b : placed[i] = c})

\* C8: the i-th placement is the cpu at position ((i - 1) mod K) + 1 of the
\* cpu list, and over any run of consecutive placements the numbers of tasks
\* assigned to two cpus differ by at most 1.
C8_RoundRobin ==
  /\ \A i \in 1..Len(placed) : placed[i] = cpus[((i - 1) % Len(cpus)) + 1]
  /\ \A a, b \in 1..Len(placed) : \A c, d \in Cpus :
       PlacedOn(c, a, b) - PlacedOn(d, a, b) <= 1

\* The cursor has wrapped around a list of three cpus twice, the last round
\* being incomplete.
C8_Witness ==
  /\ Len(cpus) = 3 /\ Len(placed) = 7
  /\ placed[7] = cpus[1] /\ placed[4] = cpus[1] /\ placed[6] = cpus[3]

\* The wakeup TaskRunnable has just handled: non-deferrable, of a task already
\* placed on a cpu.
BoostedWakeup == Running /\ last.op = "TaskRunnable" /\ last.c >= 0 /\ ~last.a

\* C9 (as claimed): after the non-deferrable wakeup of a Blocked task placed
\* on cpu c, the task has prio_boost, is at the head of its band and is the
\* task the next dequeue of cpu c's runqueue returns.
C9_WakeupNextPick ==
  BoostedWakeup =>
    /\ task[last.t].prio_boost
    /\ \/ (cs[last.c].aq # <<>> /\ Head(cs[last.c].aq) = last.t)
       \/ (cs[last.c].eq # <<>> /\ Head(cs[last.c].eq) = last.t)
    /\ NextPick(last.c) = last.t

\* C9 (amended): the task has prio_boost and is at the head of its band: the
\* active band when its remaining_time was > 0 at the wakeup, else the expired
\* band; it is the next pick exactly when its remaining_time was > 0 or the
\* active band is empty.
C9_WakeupHeadOfBand ==
  BoostedWakeup =>
    /\ task[last.t].prio_boost
    /\ IF last.b THEN Head(cs[last.c].aq) = last.t
       ELSE cs[last.c].eq # <<>> /\ Head(cs[last.c].eq) = last.t
    /\ (NextPick(last.c) = last.t) <=> (last.b \/ cs[last.c].aq = <<>>)

\* A non-deferrable wakeup of a task with an exhausted slice while the active
\* band holds another task.
C9_Witness ==
  /\ BoostedWakeup /\ ~last.b
  /\ cs[last.c].aq # <<>>
  /\ Head(cs[last.c].eq) = last.t

\* C10 (as claimed): an off-cpu message with from_switchto for a Blocked task
\* that is not the current of its cpu is handled without a fatal error.
C10_SwitchtoOffCpuSafe ==
  (last.op \in {"TaskDeparted", "TaskYield", "TaskBlocked", "TaskPreempted"} /\ last.a) =>
    fatal = "none"

\* C11: when the agent of a cpu leaves its loop, the finished flag is set, both
\* bands of the cpu's runqueue are empty and the cpu has no current; an agent
\* that has left did so after the finished flag was set.
C11_CooperativeShutdown ==
  /\ [][\A c \in Cpus :
          (c \notin exited /\ c \in exited') =>
            (finished /\ cs[c].aq = <<>> /\ cs[c].eq = <<>> /\ cs[c].current = NoTask)]_vars
  /\ [](exited # {} => finished)

\* The agent has left its loop after the tasks it had placed on its cpu were
\* drained: a task placed on the cpu is left, blocked.
C11_Witness ==
  /\ last.op = "AgentExit" /\ last.c \in exited /\ finished
  /\ \E t \in Tasks : Live(t) /\ task[t].cpu = last.c /\ task[t].run_state = "Blocked"

\* C12: no band and no cpu's current refers to a record that has been returned
\* to the allocator, and no record is returned twice.
C12_NoDanglingReference ==
  /\ \A t \in Tasks : ~Live(t) => (BandPlaces(t) = {} /\ CurrentOn(t) = {})
  /\ fatal # "doublefree"

\* TaskDeparted has freed a task that was queued, and another task is still
\* queued on the same cpu.
C12_Witness ==
  /\ Running /\ last.op = "TaskDeparted" /\ last.b /\ ~Live(last.t)
  /\ last.c >= 0 /\ Bands(last.c) # <<>>

\* What the claim says a CpuTick for cpu c does to the state it is handled in.
TickEffect(c) ==
  LET cur == cs[c].current
  IN  IF cur = NoTask THEN UNCHANGED <<task, cs, heap, fatal>>
      ELSE LET left == task[cur].remaining_time - task[cur].since_last_pick
           IN  /\ cs'[c].preempt_curr = (cs[c].preempt_curr \/ left <= 0)
               /\ task'[cur].remaining_time = left
               /\ \A t \in Tasks : task'[t].run_state = task[t].run_state
               /\ \A t \in Tasks \ {cur} : task'[t] = task[t]
               /\ \A d \in Cpus : /\ cs'[d].aq = cs[d].aq /\ cs'[d].eq = cs[d].eq
                                  /\ cs'[d].current = cs[d].current
               /\ UNCHANGED <<heap, fatal>>

AfterPreempt(c) == O1SchedulePreempt(State, c)

\* C14: when O1Schedule is called with preempt_curr set and a current T, its
\* first step leaves current null, T Queued at the back of the expired band
\* with remaining_time refilled to the slice, the active band as it was and
\* preempt_curr cleared; preempt_curr is false whenever O1Schedule has
\* returned; and when T is the only task of the cpu and the commit succeeds,
\* the call returns with T the current again, OnCpu, with a full slice and
\* both bands empty.
C14_SliceExpiryPreemption ==
  /\ [](\A c \in Cpus :
          (Running /\ cs[c].preempt_curr /\ cs[c].current # NoTask) =>
            LET T == cs[c].current
                s1 == AfterPreempt(c)
            IN  /\ s1.fatal = "none"
                /\ s1.cs[c].current = NoTask
                /\ s1.cs[c].eq = Append(cs[c].eq, T)
                /\ s1.cs[c].aq = cs[c].aq
                /\ s1.task[T].run_state = "Queued"
                /\ s1.task[T].remaining_time = Slice
                /\ ~s1.cs[c].preempt_curr)
  /\ []((Running /\ last.op = "O1Schedule") => ~cs[last.c].preempt_curr)
  /\ [][\A c \in Cpus :
          (/\ cs[c].preempt_curr /\ cs[c].current # NoTask
           /\ cs[c].aq = <<>> /\ cs[c].eq = <<>>
           /\ Schedule(c, TRUE)) =>
            (/\ cs'[c].current = cs[c].current
             /\ task'[cs[c].current].run_state = "OnCpu"
             /\ task'[cs[c].current].remaining_time = Slice
             /\ cs'[c].aq = <<>> /\ cs'[c].eq = <<>>
             /\ ~cs'[c].preempt_curr)]_vars

\* O1Schedule has found preempt_curr set with the only task of the cpu as
\* current, has moved it through the expired band and the band swap and has
\* committed it again.
C14_Witness ==
  /\ Running /\ last.op = "O1Schedule" /\ last.a /\ last.b
  /\ last.prev # NoTask /\ last.prev = last.t
  /\ cs[last.c].current = last.t
  /\ cs[last.c].aq = <<>> /\ cs[last.c].eq = <<>>
  /\ task[last.t].remaining_time = Slice

\* What the claim says Dequeue on cpu c's runqueue does and returns: last'.t is
\* the task returned.
DequeueEffect(c) ==
  IF cs[c].aq = <<>> /\ cs[c].eq = <<>>
    THEN last'.t = NoTask /\ UNCHANGED <<task, cs>>
    ELSE /\ last'.t # NoTask
         /\ IF cs[c].aq # <<>>
              THEN /\ last'.t = Head(cs[c].aq)
                   /\ cs'[c].aq = Tail(cs[c].aq)
                   /\ cs'[c].eq = cs[c].eq
              ELSE /\ last'.t = Head(cs[c].eq)
                   /\ cs'[c].aq = Tail(cs[c].eq)
                   /\ cs'[c].eq = <<>>
         /\ cs'[c].current = cs[c].current
         /\ task' = [task EXCEPT ![last'.t].run_state = "Runnable"]

\* C15: Dequeue returns none exactly when both bands are empty and then
\* changes nothing; otherwise it returns the front of the active band, after
\* swapping the bands exactly when the active band is empty, removes only that
\* task, makes it Runnable and keeps the order of the others.
C15_DequeueSemantics ==
  [][\A c \in Cpus : RqDequeue(c) => DequeueEffect(c)]_vars

\* Dequeue has swapped the bands and returned the front of the former expired
\* band; the task that was behind it is now the front of the active band.
C15_Witness ==
  /\ last.op = "Dequeue" /\ last.a /\ last.t # NoTask
  /\ cs[last.c].aq # <<>> /\ cs[last.c].eq = <<>>
  /\ task[last.t].run_state = "Runnable"

\* C16: the agent commits `next` only once its status word no longer says
\* on_cpu; while it waits it changes nothing of the scheduler state; and the
\* wait ends in the commit when the remote cpu lets go of the task.
C16_SpinBeforeCommit ==
  /\ [][\A c \in Cpus :
          (spin[c].next # NoTask /\ spin'[c].next = NoTask) => spin[c].next \notin on_cpu]_vars
  /\ [][\A c \in Cpus :
          (spin[c].next # NoTask /\ spin[c].next \in on_cpu) =>
            (UNCHANGED <<task, cs, heap, fatal>> /\ spin'[c].next = spin[c].next)]_vars
  /\ \A c \in {0} : (spin[c].next # NoTask) ~> (spin[c].next = NoTask)

\* The agent has paused for a task that was still on a remote cpu and has
\* then committed it.
C16_Witness ==
  /\ Running /\ last.op = "O1Schedule.commit" /\ last.a /\ last.b
  /\ cs[last.c].current = last.t /\ task[last.t].run_state = "OnCpu"

\* The call of thread th as one step on state s.
SerialCall(s, th) ==
  CASE thr[th].op = "Enqueue" -> Enqueue(s, RqCpu, thr[th].t)
    [] thr[th].op = "Erase" -> Erase(s, RqCpu, thr[th].t)
    [] thr[th].op = "Dequeue" -> Dequeue(s, RqCpu).s

\* What the two calls leave when one runs after the other, in either order.
SerialOutcomes ==
  {SerialCall(SerialCall(rq0, th), Other(th)) : th \in Threads}

Occurrences(q, t) == Cardinality({i \in 1..Len(q) : q[i] = t})

\* C17: the band mutations of two threads on one runqueue exclude each other
\* under the runqueue's mutex, and when both calls have returned the bands and
\* the tasks are as some serial order of the two calls leaves them: a task is
\* in the bands exactly once if it is Queued and not at all otherwise.
C17_RunqueueAtomicity ==
  /\ ~(InCritical("owner") /\ InCritical("remote"))
  /\ \A th \in Threads : InCritical(th) => mu = th
  /\ (\A th \in Threads : thr[th].pc = "done") =>
       /\ State \in SerialOutcomes
       /\ \A t \in Tasks :
            Occurrences(cs[RqCpu].aq \o cs[RqCpu].eq, t) =
              (IF task[t].run_state = "Queued" THEN 1 ELSE 0)

\* Both calls have returned, one took the lock while the other thread was in
\* its call, and the tasks the two agents enqueued are in the bands.
C17_Witness ==
  /\ Running
  /\ \A th \in Threads : thr[th].pc = "done"
  /\ \E th \in Threads : thr[th].overlap
  /\ thr["owner"].op = "Enqueue"
  /\ InSeq(cs[RqCpu].aq \o cs[RqCpu].eq, thr["remote"].t)
  /\ InSeq(cs[RqCpu].aq \o cs[RqCpu].eq, thr["owner"].t)

\* C18: once Migrate has set a task's cpu to c >= 0 it stays c until the task
\* is freed; Migrate is entered only for a task whose cpu is still -1, so at
\* most once per task; and a task is in the bands, or the current, of no cpu
\* but its own.
C18_NoRemigration ==
  /\ [][\A t \in Tasks :
          (Live(t) /\ Live(t)' /\ task[t].cpu >= 0) => task'[t].cpu = task[t].cpu]_vars
  /\ [][(mig.pc = 0 /\ mig'.pc # 0) =>
          /\ task'[mig'.t].cpu = -1
          /\ Live(mig'.t) => task[mig'.t].cpu = -1]_vars
  /\ [](\A t \in Tasks, c \in Cpus :
          (Live(t) /\ (InSeq(Bands(c), t) \/ cs[c].current = t)) => task[t].cpu = c)

\* A task placed on the second cpu has blocked and woken up: the wakeup
\* enqueued it on the second cpu again, without Migrate.
C18_Witness ==
  /\ Len(cpus) = 2 /\ Running
  /\ last.op = "TaskRunnable" /\ last.c = cpus[2] /\ mig.pc = 0
  /\ task[last.t].cpu = cpus[2] /\ InSeq(Bands(cpus[2]), last.t)

\* The task O1Schedule on cpu c opens its run request for, and the state it
\* does so in, when it is called in the present state.
CommitChoice(c) ==
  Then(O1SchedulePreempt(State, c), LAMBDA s0 : O1SchedulePick(s0, c, FALSE))

\* C19 (as claimed): whenever O1Schedule commits a task, the current again or
\* a task it has dequeued, that task's remaining_time is > 0.
C19_NoExhaustedCommit ==
  \A c \in Cpus :
    (Running /\ AgentIdle(c)) =>
      \E d \in {CommitChoice(c)} :
        (d.s.fatal = "none" /\ d.t # NoTask) => d.s.task[d.t].remaining_time > 0

\* The handling of an off-cpu message of task t.
OffCpuMessage(t) ==
  \/ \E fs \in BOOLEAN, ub \in NullDeref :
       TaskYield(t, fs, ub) \/ TaskBlocked(t, fs, ub) \/ TaskPreempted(t, fs, ub)
  \/ \E ub \in NullDeref : TaskDeparted(t, ub)
  \/ \E u \in Tasks \cup {NoTask} : TaskSwitchto(t, u)

\* C20 (as claimed): the handling of an off-cpu message of task T leaves
\* remaining_time and runtime_at_last_pick of every other task as they were
\* and sets no cpu's preempt_curr; O1Schedule, on its preemption and
\* commit-failure paths, changes them only for the task it preempts and the
\* task it chose, and sets no preempt_curr.
C20_OffCpuAccountingFrame ==
  /\ [][\A t \in Tasks :
          OffCpuMessage(t) =>
            /\ \A u \in Tasks \ {t} :
                 /\ task'[u].remaining_time = task[u].remaining_time
                 /\ task'[u].since_last_pick = task[u].since_last_pick
            /\ \A c \in Cpus : cs'[c].preempt_curr => cs[c].preempt_curr]_vars
  /\ [][\A c \in Cpus, ok \in BOOLEAN :
          Schedule(c, ok) =>
            /\ \A u \in Tasks \ {cs[c].current, last'.t} :
                 /\ task'[u].remaining_time = task[u].remaining_time
                 /\ task'[u].since_last_pick = task[u].since_last_pick
            /\ \A d \in Cpus : cs'[d].preempt_curr => cs[d].preempt_curr]_vars

\* C21: every pass of Schedule dispatches the pending messages of its cpu's
\* channel oldest first, calls O1Schedule only when none is pending, and
\* O1Schedule then makes exactly one request: a commit, or a local yield; the
\* local yield is made only when, after the preemption step, the cpu has no
\* current and both bands are empty, and always with flags 0.
C21_OneKernelActionPerPass ==
  /\ [][\A c \in Cpus, ub \in NullDeref :
          ScheduleDispatch(c, ub) =>
            /\ chan[c] # <<>>
            /\ last'.msg = chan[c][1]
            /\ chan'[c] = SubSeq(chan[c], 2, Len(chan[c]))]_vars
  /\ [][\A c \in Cpus, ok \in BOOLEAN :
          (ScheduleO1Schedule(c, ok) /\ fatal' = "none") =>
            /\ chan[c] = <<>> /\ chan'[c] = <<>>
            /\ Len(last'.req) = 1
            /\ last'.req[1].kind \in {"commit", "yield"}
            /\ last'.req[1].kind = "yield" =>
                 /\ AfterPreempt(c).cs[c].current = NoTask
                 /\ AfterPreempt(c).cs[c].aq = <<>> /\ AfterPreempt(c).cs[c].eq = <<>>
                 /\ cs'[c].current = NoTask /\ cs'[c].aq = <<>> /\ cs'[c].eq = <<>>
                 /\ last'.req[1].flags = {}
            /\ last'.req[1].kind = "commit" =>
                 /\ last'.req[1].target = last'.t
                 /\ last'.t # NoTask]_vars

\* A pass of Schedule has dispatched at least two messages and has ended in a
\* local yield, with the cpu idle and its runqueue empty.
C21_Witness ==
  /\ Running /\ last.op = "Schedule" /\ last.n >= 2
  /\ last.req = <<[kind |-> "yield", target |-> NoTask, flags |-> {}]>>
  /\ cs[last.c].current = NoTask /\ Bands(last.c) = <<>>

=============================================================================
